---- MODULE Spec2Model ----
(***************************************************************************)
(* Neo4jAdapter (packages/adapter-neo4j/src/index.ts): the fourteen        *)
(* adapter operations, the read/write transaction facade and the format    *)
(* coercion layer, over a property graph of User, Account, Session and     *)
(* VerificationToken nodes with HAS_ACCOUNT and HAS_SESSION relationships. *)
(*                                                                         *)
(* Every adapter operation issues exactly one Cypher statement inside one  *)
(* readTransaction / writeTransaction; the action of its commit is the     *)
(* whole unit of work: argument coercion, the statement's effect on the    *)
(* graph, decoding of the first returned row and the returned value.       *)
(***************************************************************************)
EXTENDS Integers, FiniteSets, Sequences, TLC

(***************************************************************************)
(* Bounds of the model.                                                    *)
(***************************************************************************)
MaxUsers == 2
MaxAccounts == 1
MaxSessions == 2
MaxTokens == 3
MaxTime == 2
MaxEmails == 1
MaxCallers == 2

(***************************************************************************)
(* Values.  A JavaScript / Cypher value is a tagged record so that the     *)
(* coercions are observable: a Date, the ISO-8601 string that              *)
(* Date.prototype.toISOString produces for it, any other string, null,     *)
(* and a Cypher temporal DateTime are five different values.               *)
(***************************************************************************)
Null == [t |-> "null", v |-> 0]

Str(k) == [t |-> "string", v |-> k]

Date(n) == [t |-> "Date", v |-> n]

IsoString(n) == [t |-> "isostring", v |-> n]

DateTime(n) == [t |-> "datetime", v |-> n]

\* A string of ISO-8601 date-time shape that Date.parse rejects (a month
\* 19, a day 39): isoDateRE matches it, and it names no instant.
NotADate(k) == [t |-> "isoshaped", v |-> k]

Number(n) == [t |-> "number", v |-> n]

\* false is 0 and true is 1.
Boolean(b) == [t |-> "boolean", v |-> b]

(***************************************************************************)
(* Flat objects (JavaScript objects, Cypher maps, node properties) are     *)
(* functions from field names to values.                                   *)
(***************************************************************************)
EmptyMap == [k \in {} |-> Null]

Field(k, x) == [f \in {k} |-> x]

\* { ...a, ...b }: the fields of b override the fields of a.
Spread(a, b) ==
    [k \in (DOMAIN a) \cup (DOMAIN b) |-> IF k \in DOMAIN b THEN b[k] ELSE a[k]]

\* const { userId, ...rest } = object: the object without the named fields.
Rest(object, names) == [k \in (DOMAIN object) \ names |-> object[k]]

\* object[key], undefined (here Null) when the key is absent.
Get(object, key) == IF key \in DOMAIN object THEN object[key] ELSE Null

(***************************************************************************)
(* Type coercion layer.                                                    *)
(***************************************************************************)
\* isoDateRE.test(value) && !isNaN(Date.parse(value)): only a string of
\* ISO-8601 date-time shape is detected as a date.
isDate(value) == value.t = "isostring"

\* format.to: a Date becomes its ISO string, everything else is kept.
formatTo(object) ==
    [k \in DOMAIN object |->
        IF object[k].t = "Date" THEN IsoString(object[k].v) ELSE object[k]]

\* A format.from that decodes nothing.
formatFrom_NoDecode(object) == object

\* format.from applied to a present object: every ISO-shaped string becomes
\* a Date, everything else is kept.  The adapter hands the driver JavaScript
\* numbers only, which the store keeps as floats, so that no value of this
\* model is a driver Integer and the isInt branch is never taken.
formatFrom(object) ==
    [k \in DOMAIN object |->
        IF isDate(object[k]) THEN Date(object[k].v) ELSE object[k]]

(***************************************************************************)
(* Cypher property semantics.                                              *)
(***************************************************************************)
\* SET n = map and CREATE (n $map): the node's properties become the map's
\* entries; an entry whose value is null is not stored.
SetReplace(map) ==
    [k \in {f \in DOMAIN map : map[f] # Null} |-> map[k]]

\* SET n = map in place of SET n += map: the properties are replaced.
SetMerge_Replace(props, map) == SetReplace(map)

\* SET n += map: the map's entries are written over the node's properties;
\* an entry whose value is null removes the property.
SetMerge(props, map) == SetReplace(Spread(props, map))

\* MATCH (n { k1: v1, ... }): the node has every listed property with an
\* equal value; a null in the pattern matches nothing.
Matches(props, pattern) ==
    \A k \in DOMAIN pattern :
        /\ pattern[k] # Null
        /\ k \in DOMAIN props
        /\ props[k] = pattern[k]

\* a <= b in Cypher, three-valued: two temporal values are compared as
\* instants; values of different types (a String and a DateTime) are
\* incomparable and the comparison is null.  The right operand is always
\* the DateTime built by datetime($data.now).
CypherLte(a, b) ==
    IF a.t = "datetime" /\ b.t = "datetime"
    THEN (IF a.v <= b.v THEN "true" ELSE "false")
    ELSE "null"

\* datetime(string): the temporal value of an ISO-8601 string.
CypherDatetime(value) == DateTime(value.v)

\* The internal id given to a created node or relationship: the ids of
\* deleted ones are reused.
FreshNid(nodes, max) ==
    CHOOSE n \in 1..max :
        /\ \A x \in nodes : x.nid # n
        /\ \A m \in 1..(n-1) : \E x \in nodes : x.nid = m

Node(nid, props) == [nid |-> nid, props |-> props]

Rel(nid, from, to) == [nid |-> nid, from |-> from, to |-> to]

\* The nodes of a label that a property pattern matches.
Match(nodes, pattern) == {n \in nodes : Matches(n.props, pattern)}

\* MERGE (n:Label { pattern }): the nodes the pattern matches or, when there
\* is none, one new node holding exactly the pattern's properties.
Merge(nodes, pattern, max) ==
    IF Match(nodes, pattern) # {}
    THEN nodes
    ELSE nodes \cup {Node(FreshNid(nodes, max), pattern)}

\* A uniqueness constraint on one property: creating a node whose value of
\* the property is already held by a node of the label is refused.
ViolatesUnique(nodes, props, key) ==
    /\ key \in DOMAIN props
    /\ \E n \in nodes : key \in DOMAIN n.props /\ n.props[key] = props[key]

\* DETACH DELETE of nodes: the relationships that start or end at them.
Detach(rels, fromNids, toNids) ==
    {r \in rels : r.from \notin fromNids /\ r.to \notin toNids}

Nids(nodes) == {n.nid : n \in nodes}

(***************************************************************************)
(* Values returned by an adapter operation.                                *)
(***************************************************************************)
RetNull == [kind |-> "null", key |-> "", a |-> EmptyMap, b |-> EmptyMap]

\* A flat record.
RetRecord(r) == [kind |-> "record", key |-> "", a |-> r, b |-> EmptyMap]

\* A row object returned as it is: { key: record }.
RetRow(key, r) == [kind |-> "row", key |-> key, a |-> r, b |-> EmptyMap]

\* { session, user }.
RetSessionAndUser(s, u) == [kind |-> "sessionAndUser", key |-> "", a |-> s, b |-> u]

\* The operation threw.
RetError(name) == [kind |-> "error", key |-> name, a |-> EmptyMap, b |-> EmptyMap]

\* A caller of the adapter: not in a call, suspended at the await of write
\* inside the operation op it called with data, or resumed with the value
\* its call returned.  local holds what the operation computed before the
\* await and uses after it.
Callers == 1..MaxCallers

Idle == [pc |-> "idle", op |-> "none", data |-> EmptyMap, local |-> EmptyMap,
         result |-> RetNull]

Awaiting(op, data, local) ==
    [pc |-> "awaiting", op |-> op, data |-> data, local |-> local, result |-> RetNull]

Returned(op, data, result) ==
    [pc |-> "returned", op |-> op, data |-> data, local |-> EmptyMap, result |-> result]

\* transactions counts the times the operation handed a unit of work to
\* session.readTransaction / writeTransaction.
NoCall == [op |-> "none", data |-> EmptyMap, failure |-> "none", transactions |-> 0]

\* A call of format.to or format.from: no unit of work.
FormatCall(op, data) == [op |-> op, data |-> data, failure |-> "none", transactions |-> 0]

\* A call whose unit of work the store carried out.
Call(op, data) == [op |-> op, data |-> data, failure |-> "none", transactions |-> 1]

\* A call whose unit of work the store rejected with the named error.
FailedCall(op, data, error) ==
    [op |-> op, data |-> data, failure |-> error, transactions |-> 1]

\* A facade that catches the rejection and answers "no row".
Rejection_Caught(error) == RetNull

\* const result = await session.readTransaction / writeTransaction(...):
\* read and write have no try / catch around the await, and no operation
\* has one around its await of read or write, so that the rejection of the
\* transaction is the rejection of the operation.
Rejection(error) == RetError(error)

(***************************************************************************)
(* State.                                                                  *)
(***************************************************************************)
VARIABLES
    users,        \* User nodes
    accounts,     \* Account nodes
    sessions,     \* Session nodes
    tokens,       \* VerificationToken nodes
    hasAccount,   \* (:User)-[:HAS_ACCOUNT]->(:Account) relationships
    hasSession,   \* (:User)-[:HAS_SESSION]->(:Session) relationships
    uuids,        \* number of identifiers crypto.randomUUID has produced
    now,          \* the wall clock read by new Date()
    call,         \* the adapter operation that returned in the last step, and its argument
    ret,          \* what that operation returned
    callers       \* the callers of the adapter: where each one is

vars == <<users, accounts, sessions, tokens, hasAccount, hasSession, uuids, now, call, ret, callers>>

graph == <<users, accounts, sessions, tokens, hasAccount, hasSession>>

Init ==
    /\ users = {}
    /\ accounts = {}
    /\ sessions = {}
    /\ tokens = {}
    /\ hasAccount = {}
    /\ hasSession = {}
    /\ uuids = 0
    /\ now = 1
    /\ call = NoCall
    /\ ret = RetNull
    /\ callers = [c \in Callers |-> Idle]

(***************************************************************************)
(* Arguments the operations are called with.                               *)
(***************************************************************************)
\* crypto.randomUUID(): the n-th identifier produced; no two are equal.
Uuid(n) == Str(n)

UserIds == {Uuid(n) : n \in 1..MaxUsers}

Times == 1..MaxTime

\* { identifier, token, expires }
TokenInputs ==
    {[identifier |-> Str(1), token |-> Str(k), expires |-> Date(e)] :
        k \in 1..MaxTokens, e \in Times}

\* { identifier, token }
TokenKeys == {[identifier |-> Str(1), token |-> Str(k)] : k \in 1..MaxTokens}

\* No more VerificationToken nodes are needed than there are keys.
MaxTokenNodes == MaxTokens

(***************************************************************************)
(* Transaction facade.                                                     *)
(***************************************************************************)
\* write(statement, values): the statement's parameter is
\* { data: format.to(values) }.
WriteData(values) == formatTo(values)

\* The time the clock shows moves forward between calls.
Tick ==
    /\ now < MaxTime
    /\ now' = now + 1
    /\ call' = NoCall
    /\ ret' = RetNull
    /\ UNCHANGED <<graph, uuids, callers>>

(***************************************************************************)
(* Verification tokens.                                                    *)
(***************************************************************************)
\* MERGE (v:VerificationToken { identifier, token }) SET v = $data
createVerificationTokenNodes(data) ==
    LET d == WriteData(data)
        pattern == [identifier |-> d.identifier, token |-> d.token]
    IN  {IF Matches(v.props, pattern) THEN Node(v.nid, SetReplace(d)) ELSE v :
            v \in Merge(tokens, pattern, MaxTokenNodes)}

createVerificationToken(data) ==
    /\ tokens' = createVerificationTokenNodes(data)
    /\ call' = Call("createVerificationToken", data)
    /\ ret' = RetRecord(data)
    /\ UNCHANGED <<users, accounts, sessions, hasAccount, hasSession, uuids, now, callers>>

\* A statement that matches on the identifier alone.
useVerificationTokenRows_IdentifierOnly(data) ==
    Match(tokens, [identifier |-> WriteData(data).identifier])

\* MATCH (v:VerificationToken { identifier, token })
useVerificationTokenRows(data) ==
    LET d == WriteData(data)
    IN  Match(tokens, [identifier |-> d.identifier, token |-> d.token])

\* A statement without the DETACH DELETE.
useVerificationTokenNodes_NoDelete(data) == tokens

\* DETACH DELETE v
useVerificationTokenNodes(data) == tokens \ useVerificationTokenRows(data)

\* RETURN properties, decoded by write and again by format.from
useVerificationTokenResults(data) ==
    IF useVerificationTokenRows(data) = {}
    THEN {RetNull}
    ELSE {RetRecord(formatFrom(v.props)) : v \in useVerificationTokenRows(data)}

useVerificationToken(data) ==
    /\ tokens' = useVerificationTokenNodes(data)
    /\ call' = Call("useVerificationToken", data)
    /\ ret' \in useVerificationTokenResults(data)
    /\ UNCHANGED <<users, accounts, sessions, hasAccount, hasSession, uuids, now, callers>>

(***************************************************************************)
(* Users.                                                                  *)
(***************************************************************************)
\* The data createUser is given: the profile of a new user, without id.
\* emailVerified is a Date; an OAuth profile may carry a field that is null
\* (image: null), another one does not carry the field.
UserInputs ==
    {Spread([name |-> Str(1), email |-> Str(e), emailVerified |-> Date(1)], image) :
        e \in 1..MaxEmails, image \in {EmptyMap, Field("image", Null)}}

\* The data updateUser is given: the id and the fields to change.
UserUpdates == {[id |-> id, name |-> Str(2)] : id \in UserIds}

Emails == {Str(e) : e \in 1..MaxEmails}

\* const user = { id: crypto.randomUUID(), ...data }
NewUser(data) == Spread(Field("id", Uuid(uuids + 1)), data)

\* CREATE (u:User $data), $data being the user built before the await.
createUserNodes(user) ==
    users \cup {Node(FreshNid(users, MaxUsers), SetReplace(WriteData(user)))}

\* user_id_constraint: ON (u:User) ASSERT u.id IS UNIQUE.  The schema has an
\* index on u.email and no constraint on it.
createUserViolation(user) ==
    ViolatesUnique(users, SetReplace(WriteData(user)), "id")

\* createUser(data) is called: the id is drawn and the user is built, then
\* write(...) is awaited.
createUserCall(c, data) ==
    /\ callers[c].pc = "idle"
    /\ uuids < MaxUsers
    /\ uuids' = uuids + 1
    /\ callers' = [callers EXCEPT ![c] = Awaiting("createUser", data, NewUser(data))]
    /\ call' = NoCall
    /\ ret' = RetNull
    /\ UNCHANGED <<graph, now>>

\* The unit of work of a suspended createUser commits, or is refused by the
\* constraint, and the call returns the user it built.
createUserCommit(c) ==
    /\ callers[c].pc = "awaiting"
    /\ callers[c].op = "createUser"
    /\ IF createUserViolation(callers[c].local)
       THEN /\ call' = FailedCall("createUser", callers[c].data, "ConstraintViolation")
            /\ ret' = Rejection("ConstraintViolation")
            /\ users' = users
       ELSE /\ call' = Call("createUser", callers[c].data)
            /\ ret' = RetRecord(callers[c].local)
            /\ users' = createUserNodes(callers[c].local)
    /\ callers' = [callers EXCEPT ![c] = Idle]
    /\ UNCHANGED <<accounts, sessions, tokens, hasAccount, hasSession, uuids, now>>

\* A format.from that decodes an absent row to an empty object.
ReadResults_EmptyObject(rows) ==
    IF rows = {} THEN {RetRecord(EmptyMap)} ELSE {RetRecord(formatFrom(r)) : r \in rows}

\* read: format.from(result?.records[0]?.get(0)) ?? null, over the rows a
\* statement returns (any of them may come first).
ReadResults(rows) ==
    IF rows = {} THEN {RetNull} ELSE {RetRecord(formatFrom(r)) : r \in rows}

\* MATCH (u:User { id: $id }) RETURN u{.*}
getUserRows(id) == {u.props : u \in Match(users, Field("id", id))}

getUser(id) ==
    /\ call' = Call("getUser", Field("id", id))
    /\ ret' \in ReadResults(getUserRows(id))
    /\ UNCHANGED <<graph, uuids, now, callers>>

\* MATCH (u:User { email: $email }) RETURN u{.*}
getUserByEmailRows(email) == {u.props : u \in Match(users, Field("email", email))}

getUserByEmail(email) ==
    /\ call' = Call("getUserByEmail", Field("email", email))
    /\ ret' \in ReadResults(getUserByEmailRows(email))
    /\ UNCHANGED <<graph, uuids, now, callers>>

\* MATCH (u:User { id: $data.id })
updateUserRows(data) == Match(users, Field("id", WriteData(data).id))

\* SET u += $data
updateUserNodes(data) ==
    {IF u \in updateUserRows(data)
        THEN Node(u.nid, SetMerge(u.props, WriteData(data)))
        ELSE u : u \in users}

\* (await write(... RETURN u{.*})).u: write returns the decoded row, or null
\* when there is no row, and reading .u of null throws.
updateUserResults(data) ==
    IF updateUserRows(data) = {}
    THEN {RetError("TypeError")}
    ELSE {RetRecord(SetMerge(u.props, WriteData(data))) : u \in updateUserRows(data)}

updateUser(data) ==
    /\ users' = updateUserNodes(data)
    /\ call' = Call("updateUser", data)
    /\ ret' \in updateUserResults(data)
    /\ UNCHANGED <<accounts, sessions, tokens, hasAccount, hasSession, uuids, now, callers>>

\* MATCH (u:User { id: $data.id })
deleteUserRows(id) == Match(users, Field("id", id))

\* DETACH DELETE u: the User node and the relationships attached to it.
deleteUserNodes(id) == users \ deleteUserRows(id)

deleteUserHasAccount(id) == Detach(hasAccount, Nids(deleteUserRows(id)), {})

deleteUserHasSession(id) == Detach(hasSession, Nids(deleteUserRows(id)), {})

\* The Account and Session nodes are not named by the statement.
deleteUserAccounts(id) == accounts

deleteUserSessions(id) == sessions

\* RETURN properties: write returns the row { properties: ... }.
deleteUserResults(id) ==
    IF deleteUserRows(id) = {}
    THEN {RetNull}
    ELSE {RetRow("properties", u.props) : u \in deleteUserRows(id)}

deleteUser(id) ==
    /\ users' = deleteUserNodes(id)
    /\ accounts' = deleteUserAccounts(id)
    /\ sessions' = deleteUserSessions(id)
    /\ hasAccount' = deleteUserHasAccount(id)
    /\ hasSession' = deleteUserHasSession(id)
    /\ call' = Call("deleteUser", Field("id", id))
    /\ ret' \in deleteUserResults(id)
    /\ UNCHANGED <<tokens, uuids, now, callers>>

(***************************************************************************)
(* Accounts.                                                               *)
(***************************************************************************)
\* { provider, providerAccountId }
AccountKeys ==
    {[provider |-> Str(1), providerAccountId |-> Str(k)] : k \in 1..MaxAccounts}

\* The data linkAccount is given.
AccountInputs ==
    {[userId |-> id, provider |-> key.provider,
      providerAccountId |-> key.providerAccountId, type |-> Str(1)] :
        id \in UserIds, key \in AccountKeys}

MaxAccountRels == MaxUsers * MaxAccounts

\* (u)-[rel]->(n): a relationship of the given kind from u to n.
Owns(rels, u, n) == \E r \in rels : r.from = u.nid /\ r.to = n.nid

\* MATCH (u:User)-[:HAS_ACCOUNT]->(a:Account { provider, providerAccountId }):
\* one row per relationship, as a pair of the User and the Account.
AccountRows(key) ==
    {<<u, a>> \in users \X Match(accounts, key) :
        \E r \in hasAccount : r.from = u.nid /\ r.to = a.nid}

\* MATCH ... RETURN u{.*}
getUserByAccountRows(key) == {row[1].props : row \in AccountRows(key)}

getUserByAccount(key) ==
    /\ call' = Call("getUserByAccount", key)
    /\ ret' \in ReadResults(getUserByAccountRows(key))
    /\ UNCHANGED <<graph, uuids, now, callers>>

\* const { userId, ...a } = data
linkAccountA(data) == Rest(data, {"userId"})

linkAccountPattern(data) ==
    [providerAccountId |-> linkAccountA(data).providerAccountId,
     provider |-> linkAccountA(data).provider]

\* MATCH (u:User) without the id: every User is a row.
linkAccountRows_AnyUser(data) == users

\* MATCH (u:User { id: $data.userId }): without a row nothing after it runs.
linkAccountRows(data) == Match(users, Field("id", data.userId))

\* MERGE (a:Account { providerAccountId, provider }) SET a += $data.a
linkAccountNodes(data) ==
    IF linkAccountRows(data) = {}
    THEN accounts
    ELSE {IF Matches(a.props, linkAccountPattern(data))
            THEN Node(a.nid, SetMerge(a.props, linkAccountA(data)))
            ELSE a :
            a \in Merge(accounts, linkAccountPattern(data), MaxAccounts)}

\* CREATE in place of MERGE: a relationship is created every time.
MergeRel_Create(rels, from, to, max) ==
    rels \cup {Rel(FreshNid(rels, max), from, to)}

\* MERGE (u)-[:HAS_ACCOUNT]->(a): a relationship is created between a pair
\* of nodes only when the pair has none.
MergeRel(rels, from, to, max) ==
    IF \E r \in rels : r.from = from /\ r.to = to
    THEN rels
    ELSE rels \cup {Rel(FreshNid(rels, max), from, to)}

RECURSIVE MergeRels(_, _, _)
MergeRels(rels, pairs, max) ==
    IF pairs = {}
    THEN rels
    ELSE LET p == CHOOSE q \in pairs : TRUE
         IN  MergeRels(MergeRel(rels, p[1], p[2], max), pairs \ {p}, max)

linkAccountHasAccount(data) ==
    MergeRels(hasAccount,
              Nids(linkAccountRows(data))
                \X Nids(Match(linkAccountNodes(data), linkAccountPattern(data))),
              MaxAccountRels)

linkAccount(data) ==
    /\ accounts' = linkAccountNodes(data)
    /\ hasAccount' = linkAccountHasAccount(data)
    /\ call' = Call("linkAccount", data)
    /\ ret' = RetRecord(data)
    /\ UNCHANGED <<users, sessions, tokens, hasSession, uuids, now, callers>>

\* DETACH DELETE a
unlinkAccountDeleted(key) == {row[2] : row \in AccountRows(key)}

\* RETURN properties { .*, userId: u.id }: write returns the row.
unlinkAccountResults(key) ==
    IF AccountRows(key) = {}
    THEN {RetNull}
    ELSE {RetRow("properties", Spread(row[2].props, Field("userId", Get(row[1].props, "id")))) :
            row \in AccountRows(key)}

unlinkAccount(key) ==
    /\ accounts' = accounts \ unlinkAccountDeleted(key)
    /\ hasAccount' = Detach(hasAccount, {}, Nids(unlinkAccountDeleted(key)))
    /\ call' = Call("unlinkAccount", key)
    /\ ret' \in unlinkAccountResults(key)
    /\ UNCHANGED <<users, sessions, tokens, hasSession, uuids, now, callers>>

(***************************************************************************)
(* Sessions.                                                               *)
(***************************************************************************)
SessionTokens == {Str(k) : k \in 1..MaxSessions}

\* The data createSession is given.
SessionInputs ==
    {[sessionToken |-> tok, userId |-> id, expires |-> Date(e)] :
        tok \in SessionTokens, id \in UserIds, e \in Times}

\* The data updateSession is given: the sessionToken, with or without a new
\* expires.
SessionUpdates ==
    {Spread(Field("sessionToken", tok), expires) :
        tok \in SessionTokens,
        expires \in {EmptyMap} \cup {Field("expires", Date(e)) : e \in Times}}

\* A pattern without the relationship: any User with the Session.
SessionRowsIn_AnyUser(nodes, rels, sessionToken) ==
    users \X Match(nodes, Field("sessionToken", sessionToken))

\* MATCH (u:User)-[:HAS_SESSION]->(s:Session { sessionToken }) over given
\* Session nodes and relationships: one row per relationship.
SessionRowsIn(nodes, rels, sessionToken) ==
    {<<u, s>> \in users \X Match(nodes, Field("sessionToken", sessionToken)) :
        \E r \in rels : r.from = u.nid /\ r.to = s.nid}

SessionRows(sessionToken) == SessionRowsIn(sessions, hasSession, sessionToken)

\* s { .*, userId: u.id }
SessionWithUserId(row) ==
    Spread(row[2].props, Field("userId", Get(row[1].props, "id")))

\* const { userId, ...s } = format.to(data)
createSessionS(data) == Rest(formatTo(data), {"userId"})

\* MATCH (u:User { id: $data.userId })
createSessionRows(data) == Match(users, Field("id", formatTo(data).userId))

\* A store without the constraint.
createSessionViolation_NoConstraint(data) == FALSE

\* session_session_token_constraint: ON (s:Session) ASSERT s.sessionToken
\* IS UNIQUE refuses the CREATE, which runs once per matched User.
createSessionViolation(data) ==
    /\ createSessionRows(data) # {}
    /\ ViolatesUnique(sessions, SetReplace(createSessionS(data)), "sessionToken")

\* CREATE (s:Session) SET s = $data.s
createSessionNodes(data) ==
    IF createSessionRows(data) = {}
    THEN sessions
    ELSE sessions \cup {Node(FreshNid(sessions, MaxSessions), SetReplace(createSessionS(data)))}

\* CREATE (u)-[:HAS_SESSION]->(s)
createSessionHasSession(data) ==
    IF createSessionRows(data) = {}
    THEN hasSession
    ELSE hasSession \cup
            {Rel(FreshNid(hasSession, MaxSessions),
                 (CHOOSE u \in createSessionRows(data) : TRUE).nid,
                 FreshNid(sessions, MaxSessions))}

createSession(data) ==
    /\ IF createSessionViolation(data)
       THEN /\ call' = FailedCall("createSession", data, "ConstraintViolation")
            /\ ret' = Rejection("ConstraintViolation")
            /\ UNCHANGED <<sessions, hasSession>>
       ELSE /\ createSessionRows(data) # {} => Cardinality(sessions) < MaxSessions
            /\ call' = Call("createSession", data)
            /\ ret' = RetRecord(data)
            /\ sessions' = createSessionNodes(data)
            /\ hasSession' = createSessionHasSession(data)
    /\ UNCHANGED <<users, accounts, tokens, hasAccount, uuids, now, callers>>

\* { sessionToken, now: new Date().toISOString() }
getSessionAndUserData(sessionToken) ==
    [sessionToken |-> sessionToken, now |-> IsoString(now)]

\* The OPTIONAL MATCH without its WHERE: the Session is deleted whenever it
\* is looked up.
getSessionAndUserExpired_NoWhere(data) ==
    {row[2] : row \in SessionRows(data.sessionToken)}

\* OPTIONAL MATCH (u:User)-[:HAS_SESSION]->(s:Session { sessionToken })
\* WHERE s.expires <= datetime($data.now): the rows whose predicate is true;
\* a predicate that is false or null selects nothing.  data is the
\* { sessionToken, now } built when the operation was called.
getSessionAndUserExpired(data) ==
    {row[2] : row \in
        {r \in SessionRows(WriteData(data).sessionToken) :
            CypherLte(Get(r[2].props, "expires"),
                      CypherDatetime(WriteData(data).now))
              = "true"}}

\* DETACH DELETE s
getSessionAndUserNodes(data) == sessions \ getSessionAndUserExpired(data)

getSessionAndUserHasSession(data) ==
    Detach(hasSession, {}, Nids(getSessionAndUserExpired(data)))

\* WITH count(s) AS c  MATCH (u:User)-[:HAS_SESSION]->(s:Session { sessionToken })
\* RETURN s { .*, userId: u.id } AS session, u{.*} AS user
\* over the graph the DETACH DELETE left: the rows the statement returns.
\* Then if (!result?.session || !result?.user) return null, else both
\* halves decoded by format.from.
getSessionAndUserRows(data) ==
    SessionRowsIn(getSessionAndUserNodes(data),
                  getSessionAndUserHasSession(data),
                  WriteData(data).sessionToken)

getSessionAndUserResults(data) ==
    LET rows == getSessionAndUserRows(data)
    IN  IF rows = {}
        THEN {RetNull}
        ELSE {RetSessionAndUser(formatFrom(SessionWithUserId(row)),
                                formatFrom(row[1].props)) : row \in rows}

\* getSessionAndUser(sessionToken) is called: the clock is read, then
\* write(...) is awaited.
getSessionAndUserCall(c, sessionToken) ==
    /\ callers[c].pc = "idle"
    /\ callers' = [callers EXCEPT ![c] =
                        Awaiting("getSessionAndUser", Field("sessionToken", sessionToken),
                                 getSessionAndUserData(sessionToken))]
    /\ call' = NoCall
    /\ ret' = RetNull
    /\ UNCHANGED <<graph, uuids, now>>

\* The unit of work of a suspended getSessionAndUser commits, with the
\* instant read at the call, and the call returns.
getSessionAndUserCommit(c) ==
    /\ callers[c].pc = "awaiting"
    /\ callers[c].op = "getSessionAndUser"
    /\ sessions' = getSessionAndUserNodes(callers[c].local)
    /\ hasSession' = getSessionAndUserHasSession(callers[c].local)
    /\ call' = Call("getSessionAndUser", callers[c].data)
    /\ ret' \in getSessionAndUserResults(callers[c].local)
    /\ callers' = [callers EXCEPT ![c] = Idle]
    /\ UNCHANGED <<users, accounts, tokens, hasAccount, uuids, now>>

\* SET s += $data
updateSessionNodes(data) ==
    {IF \E row \in SessionRows(WriteData(data).sessionToken) : row[2] = s
        THEN Node(s.nid, SetMerge(s.props, WriteData(data)))
        ELSE s : s \in sessions}

\* RETURN s { .*, userId: u.id }: write returns the row { s: ... }.
updateSessionResults(data) ==
    IF SessionRows(WriteData(data).sessionToken) = {}
    THEN {RetNull}
    ELSE {RetRow("s", Spread(SetMerge(row[2].props, WriteData(data)),
                            Field("userId", Get(row[1].props, "id")))) :
            row \in SessionRows(WriteData(data).sessionToken)}

updateSession(data) ==
    /\ sessions' = updateSessionNodes(data)
    /\ call' = Call("updateSession", data)
    /\ ret' \in updateSessionResults(data)
    /\ UNCHANGED <<users, accounts, tokens, hasAccount, hasSession, uuids, now, callers>>

\* DETACH DELETE s
deleteSessionDeleted(sessionToken) == {row[2] : row \in SessionRows(sessionToken)}

\* RETURN properties { .*, userId: u.id }: write returns the row.
deleteSessionResults(sessionToken) ==
    IF SessionRows(sessionToken) = {}
    THEN {RetNull}
    ELSE {RetRow("properties", SessionWithUserId(row)) : row \in SessionRows(sessionToken)}

deleteSession(sessionToken) ==
    /\ sessions' = sessions \ deleteSessionDeleted(sessionToken)
    /\ hasSession' = Detach(hasSession, {}, Nids(deleteSessionDeleted(sessionToken)))
    /\ call' = Call("deleteSession", Field("sessionToken", sessionToken))
    /\ ret' \in deleteSessionResults(sessionToken)
    /\ UNCHANGED <<users, accounts, tokens, hasAccount, uuids, now, callers>>

(***************************************************************************)
(* Every operation awaits its transaction.  createUser and                 *)
(* getSessionAndUser read the state (the next UUID, the clock) before the  *)
(* await and are two steps, the call and the commit; an operation that     *)
(* reads nothing before its await is the one step of its commit.  Between  *)
(* the call and the commit of one caller any other step is taken: the      *)
(* calls of the other callers, their commits, every one-step operation.    *)
(***************************************************************************)
createUserSteps ==
    \/ \E c \in Callers, data \in UserInputs : createUserCall(c, data)
    \/ \E c \in Callers : createUserCommit(c)

getSessionAndUserSteps ==
    \/ \E c \in Callers, tok \in SessionTokens : getSessionAndUserCall(c, tok)
    \/ \E c \in Callers : getSessionAndUserCommit(c)

(***************************************************************************)
(* The operations on Users, Accounts and Sessions that read no clock, with *)
(* any argument, in any order.  The clock does not tick: none of them      *)
(* reads it.                                                               *)
(***************************************************************************)
StoreNext ==
    \/ createUserSteps
    \/ \E id \in UserIds : getUser(id)
    \/ \E email \in Emails : getUserByEmail(email)
    \/ \E key \in AccountKeys : getUserByAccount(key)
    \/ \E data \in UserUpdates : updateUser(data)
    \/ \E id \in UserIds : deleteUser(id)
    \/ \E data \in AccountInputs : linkAccount(data)
    \/ \E key \in AccountKeys : unlinkAccount(key)
    \/ \E data \in SessionInputs : createSession(data)
    \/ \E data \in SessionUpdates : updateSession(data)
    \/ \E tok \in SessionTokens : deleteSession(tok)

SpecStore == Init /\ [][StoreNext]_vars

(***************************************************************************)
(* Sessions over time: createSession, updateSession, deleteSession,        *)
(* getSessionAndUser and the two operations that make and remove their     *)
(* owners, while the clock ticks.                                          *)
(***************************************************************************)
SessionsNext ==
    \/ Tick
    \/ createUserSteps
    \/ \E id \in UserIds : deleteUser(id)
    \/ \E data \in SessionInputs : createSession(data)
    \/ getSessionAndUserSteps
    \/ \E data \in SessionUpdates : updateSession(data)
    \/ \E tok \in SessionTokens : deleteSession(tok)

SpecSessions == Init /\ [][SessionsNext]_vars

(***************************************************************************)
(* The adapter over VerificationTokens.                                    *)
(***************************************************************************)
TokensNext ==
    \/ \E data \in TokenInputs : createVerificationToken(data)
    \/ \E data \in TokenKeys : useVerificationToken(data)

SpecTokens == Init /\ [][TokensNext]_vars

(***************************************************************************)
(* Concurrent callers of createVerificationToken and useVerificationToken. *)
(* Each call is one suspension point: the caller hands one statement to    *)
(* session.writeTransaction and is resumed with its first row.  The unit   *)
(* of work is executed by the store as one atomic step, and the units of   *)
(* work of the suspended calls commit in any order.                        *)
(***************************************************************************)
\* createVerificationToken(data) is called: write(...) is awaited.
createVerificationTokenCall(c, data) ==
    /\ callers[c].pc = "idle"
    /\ callers' = [callers EXCEPT ![c] = Awaiting("createVerificationToken", data, EmptyMap)]
    /\ UNCHANGED <<graph, uuids, now, call, ret>>

\* The unit of work of a suspended createVerificationToken commits and the
\* call returns its input.
createVerificationTokenCommit(c) ==
    /\ callers[c].pc = "awaiting"
    /\ callers[c].op = "createVerificationToken"
    /\ tokens' = createVerificationTokenNodes(callers[c].data)
    /\ callers' = [callers EXCEPT ![c] =
                        Returned("createVerificationToken", callers[c].data,
                                 RetRecord(callers[c].data))]
    /\ UNCHANGED <<users, accounts, sessions, hasAccount, hasSession, uuids, now, call, ret>>

\* useVerificationToken(data) is called: write(...) is awaited.
useVerificationTokenCall(c, data) ==
    /\ callers[c].pc = "idle"
    /\ callers' = [callers EXCEPT ![c] = Awaiting("useVerificationToken", data, EmptyMap)]
    /\ UNCHANGED <<graph, uuids, now, call, ret>>

\* The unit of work of a suspended useVerificationToken commits and the
\* call returns.
useVerificationTokenCommit(c) ==
    /\ callers[c].pc = "awaiting"
    /\ callers[c].op = "useVerificationToken"
    /\ tokens' = useVerificationTokenNodes(callers[c].data)
    /\ \E result \in useVerificationTokenResults(callers[c].data) :
            callers' = [callers EXCEPT ![c] =
                            Returned("useVerificationToken", callers[c].data, result)]
    /\ UNCHANGED <<users, accounts, sessions, hasAccount, hasSession, uuids, now, call, ret>>

\* A caller that was resumed goes on and may call again.
Resume(c) ==
    /\ callers[c].pc = "returned"
    /\ callers' = [callers EXCEPT ![c] = Idle]
    /\ UNCHANGED <<graph, uuids, now, call, ret>>

ConcurrentNext ==
    \/ \E c \in Callers, data \in TokenInputs : createVerificationTokenCall(c, data)
    \/ \E c \in Callers : createVerificationTokenCommit(c)
    \/ \E c \in Callers, data \in TokenKeys : useVerificationTokenCall(c, data)
    \/ \E c \in Callers : useVerificationTokenCommit(c)
    \/ \E c \in Callers : Resume(c)

SpecConcurrent == Init /\ [][ConcurrentNext]_vars

(***************************************************************************)
(* The store rejects a unit of work: the connection is lost, or the        *)
(* transaction is in conflict with another one and is rolled back.         *)
(* session.readTransaction / writeTransaction then rejects, nothing of the *)
(* statement is committed, and the operation that awaited it rejects.      *)
(***************************************************************************)
StoreErrors == {"ServiceUnavailable"}

operationFails(op, data, error) ==
    /\ call' = FailedCall(op, data, error)
    /\ ret' = Rejection(error)
    /\ UNCHANGED <<graph, uuids, now, callers>>

\* The unit of work of a suspended call is rejected.
suspendedCallFails(c, error) ==
    /\ callers[c].pc = "awaiting"
    /\ call' = FailedCall(callers[c].op, callers[c].data, error)
    /\ ret' = Rejection(error)
    /\ callers' = [callers EXCEPT ![c] = Idle]
    /\ UNCHANGED <<graph, uuids, now>>

(***************************************************************************)
(* The whole adapter, every operation in any order while the clock ticks,  *)
(* over a store that may reject any unit of work.  The Sessions and the    *)
(* VerificationTokens are those of one sessionToken and one (identifier,   *)
(* token) pair.                                                            *)
(***************************************************************************)
AdapterSessionInputs ==
    {data \in SessionInputs : data.sessionToken = Str(1) /\ data.expires = Date(1)}

AdapterSessionTokens == {data.sessionToken : data \in AdapterSessionInputs}

AdapterSessionUpdates == {Field("sessionToken", tok) : tok \in AdapterSessionTokens}

AdapterTokenInputs ==
    {data \in TokenInputs : data.token = Str(1) /\ data.expires = Date(1)}

AdapterTokenKeys == {key \in TokenKeys : key.token = Str(1)}

AdapterOperations ==
    \/ createUserSteps
    \/ \E id \in UserIds : getUser(id)
    \/ \E email \in Emails : getUserByEmail(email)
    \/ \E key \in AccountKeys : getUserByAccount(key)
    \/ \E data \in UserUpdates : updateUser(data)
    \/ \E id \in UserIds : deleteUser(id)
    \/ \E data \in AccountInputs : linkAccount(data)
    \/ \E key \in AccountKeys : unlinkAccount(key)
    \/ \E data \in AdapterSessionInputs : createSession(data)
    \/ \E c \in Callers, tok \in AdapterSessionTokens : getSessionAndUserCall(c, tok)
    \/ \E c \in Callers : getSessionAndUserCommit(c)
    \/ \E data \in AdapterSessionUpdates : updateSession(data)
    \/ \E tok \in AdapterSessionTokens : deleteSession(tok)
    \/ \E data \in AdapterTokenInputs : createVerificationToken(data)
    \/ \E data \in AdapterTokenKeys : useVerificationToken(data)

FailingNext ==
    \E error \in StoreErrors :
        \/ \E id \in UserIds : operationFails("getUser", Field("id", id), error)
        \/ \E email \in Emails : operationFails("getUserByEmail", Field("email", email), error)
        \/ \E key \in AccountKeys : operationFails("getUserByAccount", key, error)
        \/ \E data \in UserUpdates : operationFails("updateUser", data, error)
        \/ \E id \in UserIds : operationFails("deleteUser", Field("id", id), error)
        \/ \E data \in AccountInputs : operationFails("linkAccount", data, error)
        \/ \E key \in AccountKeys : operationFails("unlinkAccount", key, error)
        \/ \E data \in AdapterSessionInputs : operationFails("createSession", data, error)
        \/ \E data \in AdapterSessionUpdates : operationFails("updateSession", data, error)
        \/ \E tok \in AdapterSessionTokens :
                operationFails("deleteSession", Field("sessionToken", tok), error)
        \/ \E data \in AdapterTokenInputs :
                operationFails("createVerificationToken", data, error)
        \/ \E data \in AdapterTokenKeys : operationFails("useVerificationToken", data, error)
        \/ \E c \in Callers : suspendedCallFails(c, error)

AdapterNext ==
    \/ Tick
    \/ AdapterOperations
    \/ FailingNext

SpecAdapter == Init /\ [][AdapterNext]_vars

(***************************************************************************)
(* The coercion layer on its own: format.to is applied to a canonical      *)
(* record, a flat object whose values are Dates, numbers, strings,         *)
(* booleans or null, and format.from to what format.to returned.           *)
(***************************************************************************)
CanonicalValues ==
    {Null, Str(1), NotADate(1), Number(1), Boolean(0), Boolean(1)}
        \cup {Date(n) : n \in Times} \cup {IsoString(n) : n \in Times}

CanonicalFields == {"name", "emailVerified"}

CanonicalRecords == UNION {[D -> CanonicalValues] : D \in SUBSET CanonicalFields}

\* format.to(object)
toCall(object) ==
    /\ call' = FormatCall("format.to", object)
    /\ ret' = RetRecord(formatTo(object))
    /\ UNCHANGED <<graph, uuids, now, callers>>

\* format.from(format.to(object)): call.data stays the object the round
\* trip started from.
fromCall ==
    /\ call.op = "format.to"
    /\ call' = FormatCall("format.from", call.data)
    /\ ret' = RetRecord(formatFrom(ret.a))
    /\ UNCHANGED <<graph, uuids, now, callers>>

FormatNext ==
    \/ \E object \in CanonicalRecords : toCall(object)
    \/ fromCall

SpecFormat == Init /\ [][FormatNext]_vars

(***************************************************************************)
(* Properties.                                                             *)
(***************************************************************************)
\* The { identifier, token } key of a token record.
TokenKey(data) == [identifier |-> data.identifier, token |-> data.token]

\* C1: createVerificationToken(data) leaves exactly one VerificationToken
\* with data's (identifier, token), holding data's fields; a token appears
\* for a pair only by createVerificationToken of that pair; and
\* useVerificationToken of a pair returns the fields the stored token was
\* created with (expires as the same instant) when one is stored, null when
\* none is, and leaves no token with that pair.  So of two successive calls
\* with no createVerificationToken for the pair in between, the first returns
\* the stored fields and the second null.
C1_SingleUse ==
    [][\A key \in TokenKeys :
        /\ (call'.op = "createVerificationToken" /\ TokenKey(call'.data) = key) =>
              /\ Cardinality(Match(tokens', key)) = 1
              /\ \A v \in Match(tokens', key) : formatFrom(v.props) = call'.data
        /\ (Match(tokens, key) = {} /\ Match(tokens', key) # {}) =>
              (call'.op = "createVerificationToken" /\ TokenKey(call'.data) = key)
        /\ (call'.op = "useVerificationToken" /\ call'.data = key) =>
              /\ Match(tokens', key) = {}
              /\ IF Match(tokens, key) = {}
                 THEN ret' = RetNull
                 ELSE \E v \in Match(tokens, key) :
                        ret' = RetRecord([identifier |-> key.identifier,
                                          token |-> key.token,
                                          expires |-> Date(v.props.expires.v)])
      ]_vars

\* C1 witness: a useVerificationToken call has returned the fields of a
\* stored token and the token is gone, while another token is still stored.
C1_Witness ==
    /\ call.op = "useVerificationToken"
    /\ ret.kind = "record"
    /\ TokenKey(ret.a) = call.data
    /\ Match(tokens, call.data) = {}
    /\ tokens # {}

\* The suspended call of caller c to the operation op ends in this step.
Ends(c, op) ==
    /\ callers[c].pc = "awaiting"
    /\ callers[c].op = op
    /\ callers'[c].pc # "awaiting"

\* C2: in every interleaving of concurrent createVerificationToken and
\* useVerificationToken calls, a useVerificationToken call returns the
\* fields of the stored token with its pair, at most one being stored, and
\* removes it in the same unit of work, or returns null when none is
\* stored: of the calls that run against one stored token one returns its
\* fields, and every other one, suspended with the same pair, finds the
\* pair gone and can only return null.
C2_ConsumedOnce ==
    [][\A c \in Callers :
        Ends(c, "useVerificationToken") =>
            LET stored == Match(tokens, callers[c].data)
            IN  /\ Cardinality(stored) <= 1
                /\ tokens' = tokens \ stored
                /\ Match(tokens', callers[c].data) = {}
                /\ callers'[c].result \in
                        IF stored = {}
                        THEN {RetNull}
                        ELSE {RetRecord(formatFrom(t.props)) : t \in stored}
                /\ \A d \in Callers \ {c} :
                        (/\ callers[d].pc = "awaiting"
                         /\ callers[d].op = "useVerificationToken"
                         /\ callers[d].data = callers[c].data) =>
                            useVerificationTokenResults(callers[d].data)' = {RetNull}
      ]_vars

\* C2 witness: two callers' useVerificationToken calls for the same pair
\* have returned, one with the token's fields and one with null.
C2_Witness ==
    \E c1, c2 \in Callers :
        /\ c1 # c2
        /\ callers[c1].op = "useVerificationToken"
        /\ callers[c2].op = "useVerificationToken"
        /\ callers[c1].pc = "returned"
        /\ callers[c2].pc = "returned"
        /\ callers[c1].data = callers[c2].data
        /\ callers[c1].result.kind = "record"
        /\ callers[c2].result = RetNull

\* The argument of a call that takes one string.
IdArg(id) == Field("id", id)

TokArg(tok) == Field("sessionToken", tok)

AccountKey(data) ==
    [provider |-> data.provider, providerAccountId |-> data.providerAccountId]

\* C3: right after deleteUser(id) the store holds no Account and no Session
\* that was owned by the deleted User.
C3_CascadeDelete ==
    [][\A id \in UserIds :
        (call'.op = "deleteUser" /\ call'.data = IdArg(id)) =>
            \A u \in Match(users, IdArg(id)) :
                /\ \A a \in accounts : Owns(hasAccount, u, a) => a.nid \notin Nids(accounts')
                /\ \A s \in sessions : Owns(hasSession, u, s) => s.nid \notin Nids(sessions')
      ]_vars

\* C4: right after deleteUser(id) of a User with linked Accounts and
\* Sessions, getUser(id) finds nothing, getUserByAccount finds nothing for
\* the key of each of those Accounts and getSessionAndUser returns null for
\* the sessionToken of each of those Sessions.
C4_LookupsNullAfterDelete ==
    [][\A id \in UserIds :
        (call'.op = "deleteUser" /\ call'.data = IdArg(id)) =>
            \A u \in Match(users, IdArg(id)) :
                /\ getUserRows(id)' = {}
                /\ \A a \in accounts : Owns(hasAccount, u, a) =>
                      getUserByAccountRows(AccountKey(a.props))' = {}
                /\ \A s \in sessions : Owns(hasSession, u, s) =>
                      getSessionAndUserResults(
                          getSessionAndUserData(s.props.sessionToken))' = {RetNull}
      ]_vars

\* C5: getSessionAndUser(sessionToken) called at an instant later than the
\* expires of the stored Session returns null and leaves no Session with
\* that sessionToken in the store.
C5_ExpiredSessionPurged ==
    [][\A c \in Callers, tok \in SessionTokens :
        (/\ Ends(c, "getSessionAndUser")
         /\ callers[c].data = TokArg(tok)
         /\ \E row \in SessionRows(tok) :
                row[2].props.expires.v < callers[c].local.now.v) =>
            /\ ret' = RetNull
            /\ Match(sessions', TokArg(tok)) = {}
      ]_vars

\* C6: in every reachable state, whatever getSessionAndUser can return for
\* any sessionToken is null or a pair of a stored Session and the User that
\* owns it, with session.userId equal to user.id; and so is what the last
\* getSessionAndUser call returned.
C6_MatchedPairOrNull ==
    LET Matched(r, tok) ==
            /\ r.kind = "sessionAndUser"
            /\ "userId" \in DOMAIN r.a
            /\ "id" \in DOMAIN r.b
            /\ r.a.userId = r.b.id
            /\ r.a.sessionToken = tok
            /\ \E u \in users, s \in sessions :
                    /\ Owns(hasSession, u, s)
                    /\ r.b = formatFrom(u.props)
                    /\ Rest(r.a, {"userId"}) = formatFrom(Rest(s.props, {"userId"}))
    IN  /\ \A tok \in SessionTokens, t \in 1..now :
            \A r \in getSessionAndUserResults([sessionToken |-> tok, now |-> IsoString(t)]) :
                r = RetNull \/ Matched(r, tok)
        /\ call.op = "getSessionAndUser" =>
            (ret = RetNull \/ Matched(ret, call.data.sessionToken))

\* C6 witness: getSessionAndUser was called for the sessionToken of a
\* Session whose owner was deleted, and returned null.
C6_Witness ==
    /\ call.op = "getSessionAndUser"
    /\ ret = RetNull
    /\ \E s \in Match(sessions, call.data) : \A u \in users : ~Owns(hasSession, u, s)

\* C7: linkAccount for an existing User leaves exactly one Account with the
\* (provider, providerAccountId) and exactly one HAS_ACCOUNT relationship
\* from the User to it, and a second call with the same data changes nothing
\* in the store.
C7_LinkIdempotent ==
    [][\A data \in AccountInputs :
        (call'.op = "linkAccount" /\ call'.data = data
            /\ Match(users, IdArg(data.userId)) # {}) =>
            /\ Cardinality(Match(accounts', AccountKey(data))) = 1
            /\ \A u \in Match(users, IdArg(data.userId)) :
                \A a \in Match(accounts', AccountKey(data)) :
                    Cardinality({r \in hasAccount' : r.from = u.nid /\ r.to = a.nid}) = 1
            /\ (call.op = "linkAccount" /\ call.data = data) =>
                    graph' = graph
      ]_vars

\* C7 witness: linkAccount has run for an existing User whose Account is in
\* the store with its relationship.
C7_Witness ==
    /\ call.op = "linkAccount"
    /\ \E u \in Match(users, IdArg(call.data.userId)) :
        \E a \in Match(accounts, AccountKey(call.data)) : Owns(hasAccount, u, a)

\* C8: in every reachable state there is at most one Account per
\* (provider, providerAccountId) and every Account is linked to exactly one
\* User.
C8_OneAccountOneOwner ==
    /\ \A key \in AccountKeys : Cardinality(Match(accounts, key)) <= 1
    /\ \A a \in accounts : Cardinality({u \in users : Owns(hasAccount, u, a)}) = 1

\* C9 as stated: a createUser with an email an existing User holds, and a
\* linkAccount with a (provider, providerAccountId) an existing Account
\* holds, fail with a constraint violation and leave the store as it was.
C9_DuplicateKeyFails ==
    [][/\ \A data \in UserInputs :
            (call'.op = "createUser" /\ call'.data = data
                /\ Match(users, Field("email", data.email)) # {}) =>
                (ret' = RetError("ConstraintViolation") /\ users' = users)
       /\ \A data \in AccountInputs :
            (call'.op = "linkAccount" /\ call'.data = data
                /\ Match(accounts, AccountKey(data)) # {}) =>
                (ret' = RetError("ConstraintViolation")
                    /\ accounts' = accounts /\ hasAccount' = hasAccount)
      ]_vars

\* C10: no two Session nodes share a sessionToken, and a createSession call
\* that found its sessionToken stored was refused and left one Session with it.
C10_SessionTokenUnique ==
    /\ \A s1, s2 \in sessions :
        Get(s1.props, "sessionToken") = Get(s2.props, "sessionToken") => s1 = s2
    /\ (call.op = "createSession" /\ ret.kind = "error") =>
        Cardinality(Match(sessions, TokArg(call.data.sessionToken))) = 1

\* C10 witness: createSession was called with a stored sessionToken and
\* failed with the constraint violation.
C10_Witness ==
    /\ call.op = "createSession"
    /\ ret = RetError("ConstraintViolation")
    /\ Cardinality(Match(sessions, TokArg(call.data.sessionToken))) = 1

\* The old properties of a record, its new ones and the payload of a
\* partial merge: the payload's fields read back as the payload's values,
\* every other field is as it was, and no field appears from nowhere.
IsPartialMerge(old, new, data) ==
    /\ DOMAIN new \subseteq (DOMAIN old) \cup (DOMAIN data)
    /\ \A k \in DOMAIN data : Get(formatFrom(new), k) = data[k]
    /\ \A k \in (DOMAIN old) \ (DOMAIN data) : k \in DOMAIN new /\ new[k] = old[k]

\* C11: updateUser and updateSession are partial merges.  For every User
\* that getUser finds and every Session that getSessionAndUser could find,
\* each field named in the payload takes the payload's value, every field
\* not named keeps its stored value, and no other User, Account, Session or
\* relationship is changed.
C11_PartialMerge ==
    [][/\ \A data \in UserUpdates :
            (call'.op = "updateUser" /\ call'.data = data) =>
                /\ Nids(users') = Nids(users)
                /\ \A u \in users : \A v \in users' :
                        v.nid = u.nid =>
                            IF u.props \in getUserRows(data.id)
                            THEN IsPartialMerge(u.props, v.props, data)
                            ELSE v = u
                /\ accounts' = accounts /\ sessions' = sessions
                /\ hasAccount' = hasAccount /\ hasSession' = hasSession
       /\ \A data \in SessionUpdates :
            (call'.op = "updateSession" /\ call'.data = data) =>
                /\ Nids(sessions') = Nids(sessions)
                /\ \A s \in sessions : \A v \in sessions' :
                        v.nid = s.nid =>
                            IF \E row \in SessionRows(data.sessionToken) : row[2] = s
                            THEN IsPartialMerge(s.props, v.props, data)
                            ELSE v = s
                /\ users' = users /\ accounts' = accounts
                /\ hasAccount' = hasAccount /\ hasSession' = hasSession
      ]_vars

\* An updateUser that named only the name has changed it and kept the
\* email, next to a second User who still has the name they were created
\* with.
C11_Witness ==
    /\ call.op = "updateUser"
    /\ \E u \in users : \E v \in users :
            /\ u.props.id = call.data.id
            /\ u.props.name = call.data.name
            /\ "email" \in DOMAIN u.props
            /\ v.props.id # call.data.id
            /\ v.props.name # call.data.name

\* The canonical Session record of a row: s { .*, userId: u.id } decoded.
SessionRecord(row) == formatFrom(SessionWithUserId(row))

\* The canonical Account record of a row: a { .*, userId: u.id } decoded.
AccountRecord(row) ==
    formatFrom(Spread(row[2].props, Field("userId", Get(row[1].props, "id"))))

\* C12: deleteUser, unlinkAccount and deleteSession on a record that exists
\* return the fields the record had before the removal as the canonical
\* record itself: what getUser gave for the User, and the Account's and the
\* Session's fields with the owner's userId and decoded timestamps.
C12_DeleteReturnsRecord ==
    [][/\ \A id \in UserIds :
            (call'.op = "deleteUser" /\ call'.data = IdArg(id)
                /\ getUserRows(id) # {}) =>
                    ret' \in ReadResults(getUserRows(id))
       /\ \A key \in AccountKeys :
            (call'.op = "unlinkAccount" /\ call'.data = key
                /\ AccountRows(key) # {}) =>
                    ret' \in {RetRecord(AccountRecord(row)) : row \in AccountRows(key)}
       /\ \A tok \in SessionTokens :
            (call'.op = "deleteSession" /\ call'.data = TokArg(tok)
                /\ SessionRows(tok) # {}) =>
                    ret' \in {RetRecord(SessionRecord(row)) : row \in SessionRows(tok)}
      ]_vars

\* C13: updateUser and updateSession on a record that exists return the
\* record as it is after the update, in canonical form: the value a lookup
\* of the same key gives right after the update.
C13_UpdateReturnsRecord ==
    [][/\ \A data \in UserUpdates :
            (call'.op = "updateUser" /\ call'.data = data
                /\ getUserRows(data.id) # {}) =>
                    ret' \in ReadResults(getUserRows(data.id))'
       /\ \A data \in SessionUpdates :
            (call'.op = "updateSession" /\ call'.data = data
                /\ SessionRows(data.sessionToken) # {}) =>
                    ret' \in {RetRecord(SessionRecord(row)) :
                                row \in SessionRows(data.sessionToken)}'
      ]_vars

\* The statement of a lookup by one MATCH, a delete, useVerificationToken
\* or updateSession returns no row.  (getSessionAndUser's statement is run
\* with the instant read at the call: getSessionAndUserRows.)
NoRow(c) ==
    CASE c.op = "getUser" -> getUserRows(c.data.id) = {}
      [] c.op = "getUserByEmail" -> getUserByEmailRows(c.data.email) = {}
      [] c.op = "getUserByAccount" -> getUserByAccountRows(c.data) = {}
      [] c.op = "deleteUser" -> deleteUserRows(c.data.id) = {}
      [] c.op = "unlinkAccount" -> AccountRows(c.data) = {}
      [] c.op = "deleteSession" -> SessionRows(c.data.sessionToken) = {}
      [] c.op = "useVerificationToken" -> useVerificationTokenRows(c.data) = {}
      [] c.op = "updateSession" -> SessionRows(c.data.sessionToken) = {}
      [] OTHER -> FALSE

\* C14: getUser, getUserByEmail, getUserByAccount, deleteUser,
\* unlinkAccount, deleteSession and useVerificationToken, called with a key
\* that nothing in the store matches, return null, raise no error, and leave
\* the store as it was (the store having carried out the unit of work); and
\* so does getSessionAndUser called with a sessionToken that no Session of a
\* User has when its statement runs.
C14_NotFoundIsNull ==
    [][/\ (/\ call'.op \in {"getUser", "getUserByEmail", "getUserByAccount",
                             "deleteUser", "unlinkAccount", "deleteSession",
                             "useVerificationToken"}
            /\ call'.failure = "none"
            /\ NoRow(call')) =>
                (ret' = RetNull /\ graph' = graph)
       /\ \A c \in Callers :
            (/\ Ends(c, "getSessionAndUser")
             /\ call'.failure = "none"
             /\ SessionRows(callers[c].data.sessionToken) = {}) =>
                (/\ call' = Call("getSessionAndUser", callers[c].data)
                 /\ ret' = RetNull
                 /\ graph' = graph)
      ]_vars

\* deleteUser of an id that no User has returned null while another User is
\* stored.
C14_Witness ==
    /\ call.op = "deleteUser"
    /\ call.failure = "none"
    /\ ret = RetNull
    /\ users # {}
    /\ \A u \in users : u.props.id # call.data.id

\* C15: a call whose unit of work the store rejected ends with that same
\* error and has changed nothing in the store; createSession on a stored
\* sessionToken is such a call (constraint violation, if nothing else); a
\* call that returns a value was not rejected, and a call that returns null
\* was not rejected and its statement returned no row; and every call,
\* rejected or not, has handed one unit of work to the session, once, and
\* leaves its caller with no call in flight.
C15_FailurePropagates ==
    [][/\ call'.failure # "none" =>
            (ret' = RetError(call'.failure) /\ graph' = graph)
       /\ \A data \in SessionInputs :
            (call'.op = "createSession" /\ call'.data = data
                /\ createSessionViolation(data)) =>
                    call'.failure \in StoreErrors \cup {"ConstraintViolation"}
       /\ (call'.op # "none" /\ ret'.kind # "error") => call'.failure = "none"
       /\ (call'.op # "none" /\ ret' = RetNull) =>
            IF call'.op = "getSessionAndUser"
            THEN \E c \in Callers :
                    /\ Ends(c, "getSessionAndUser")
                    /\ getSessionAndUserRows(callers[c].local) = {}
            ELSE NoRow(call')
       /\ call'.op # "none" => call'.transactions = 1
       /\ \A c \in Callers :
            (callers[c].pc = "awaiting" /\ callers'[c] # callers[c]) =>
                (/\ callers'[c] = Idle
                 /\ call'.op = callers[c].op
                 /\ call'.data = callers[c].data)
      ]_vars

\* linkAccount for a stored User was rejected by the store, and no Account
\* is stored.
C15_Witness ==
    /\ call.op = "linkAccount"
    /\ call.failure \in StoreErrors
    /\ ret = RetError(call.failure)
    /\ accounts = {}
    /\ \E u \in users : u.props.id = call.data.userId

\* C16 as stated: format.from(format.to(R)) is R for every canonical record
\* R, the records with strings of ISO-8601 date-time shape included.
C16_RoundTrip ==
    call.op = "format.from" => ret = RetRecord(call.data)

\* C16: format.from(format.to(R)) has R's fields, and each of them has R's
\* value, a Date as the same instant, except that a string which is a valid
\* ISO-8601 date-time comes back as the Date of that instant.
C16_RoundTripButIsoStrings ==
    call.op = "format.from" =>
        /\ ret.kind = "record"
        /\ DOMAIN ret.a = DOMAIN call.data
        /\ \A k \in DOMAIN call.data :
                ret.a[k] = IF call.data[k].t = "isostring"
                           THEN Date(call.data[k].v)
                           ELSE call.data[k]

\* The round trip of a record with a Date and a valid ISO-8601 string.
C16_Witness ==
    /\ call.op = "format.from"
    /\ \E k \in DOMAIN call.data : call.data[k].t = "Date" /\ ret.a[k] = call.data[k]
    /\ \E k \in DOMAIN call.data : call.data[k].t = "isostring" /\ ret.a[k].t = "Date"

\* C17: right after createUser(data) returned the User U, getUser(U.id)
\* returns a record with exactly U's fields and values, a Date as the same
\* instant and the fields given as null included; and no two Users have
\* the same id.
C17_CreatedUserReadsBack ==
    /\ (call.op = "createUser" /\ ret.kind = "record") =>
            ReadResults(getUserRows(ret.a.id)) = {RetRecord(ret.a)}
    /\ \A u, v \in users : u.props.id = v.props.id => u = v

\* C18 as stated: linkAccount and createSession called with a userId that
\* no User has leave the store as it was, and getUserByAccount /
\* getSessionAndUser for the key of the call return null afterwards.
C18_LookupIsNull ==
    [][/\ \A data \in AccountInputs :
            (call'.op = "linkAccount" /\ call'.data = data
                /\ Match(users, IdArg(data.userId)) = {}) =>
                    /\ graph' = graph
                    /\ ReadResults(getUserByAccountRows(AccountKey(data)))' = {RetNull}
       /\ \A data \in SessionInputs :
            (call'.op = "createSession" /\ call'.data = data
                /\ Match(users, IdArg(data.userId)) = {}) =>
                    /\ graph' = graph
                    /\ \A t \in Times :
                            getSessionAndUserResults(
                                [sessionToken |-> data.sessionToken,
                                 now |-> IsoString(t)])' = {RetNull}
      ]_vars

\* C18 amended: linkAccount and createSession called with a userId that no
\* User has create no Account, no Session and no relationship: the store is
\* as it was, and getUserByAccount / getSessionAndUser for the key of the
\* call return what they returned before the call, which is null when no
\* User owned an Account / a Session with that key.
C18_LinkNeedsUser ==
    [][/\ \A data \in AccountInputs :
            (call'.op = "linkAccount" /\ call'.data = data
                /\ Match(users, IdArg(data.userId)) = {}) =>
                    /\ graph' = graph
                    /\ ReadResults(getUserByAccountRows(AccountKey(data)))'
                            = ReadResults(getUserByAccountRows(AccountKey(data)))
                    /\ AccountRows(AccountKey(data)) = {} =>
                            ReadResults(getUserByAccountRows(AccountKey(data)))' = {RetNull}
       /\ \A data \in SessionInputs :
            (call'.op = "createSession" /\ call'.data = data
                /\ Match(users, IdArg(data.userId)) = {}) =>
                    /\ graph' = graph
                    /\ \A t \in Times :
                            getSessionAndUserResults(
                                [sessionToken |-> data.sessionToken,
                                 now |-> IsoString(t)])'
                            = getSessionAndUserResults(
                                [sessionToken |-> data.sessionToken,
                                 now |-> IsoString(t)])
                    /\ SessionRows(data.sessionToken) = {} =>
                            \A t \in Times :
                                getSessionAndUserResults(
                                    [sessionToken |-> data.sessionToken,
                                     now |-> IsoString(t)])' = {RetNull}
      ]_vars

\* linkAccount was called for a userId that no User has, with the pair of
\* an Account that another User owns: that Account is the only one, and
\* getUserByAccount for the pair returns its owner.
C18_Witness ==
    /\ call.op = "linkAccount"
    /\ \A u \in users : u.props.id # call.data.userId
    /\ Cardinality(accounts) = 1
    /\ AccountRows(AccountKey(call.data)) # {}
    /\ RetNull \notin ReadResults(getUserByAccountRows(AccountKey(call.data)))

\* The instant a stored Session expires at.
ExpiresAt(s) == Get(formatFrom(s.props), "expires").v

\* C19: getSessionAndUser(sessionToken) on a Session that expires later
\* than the time of the call returns that Session with its owner and leaves
\* the store as it was; and whatever it is called with, every Session with
\* another sessionToken is still stored with its relationships.
C19_LiveSessionKept ==
    [][\A c \in Callers, tok \in SessionTokens :
        (Ends(c, "getSessionAndUser") /\ callers[c].data = TokArg(tok)) =>
            /\ \A row \in SessionRows(tok) :
                    ExpiresAt(row[2]) > callers[c].local.now.v =>
                        /\ graph' = graph
                        /\ ret' \in {RetSessionAndUser(SessionRecord(r), formatFrom(r[1].props)) :
                                        r \in SessionRows(tok)}
            /\ \A s \in sessions :
                    Get(s.props, "sessionToken") # tok =>
                        /\ s \in sessions'
                        /\ \A r \in hasSession : r.to = s.nid => r \in hasSession'
      ]_vars

\* getSessionAndUser returned a Session that expires later, while a Session
\* with another sessionToken, which has expired, is stored.
C19_Witness ==
    /\ call.op = "getSessionAndUser"
    /\ ret.kind = "sessionAndUser"
    /\ ret.a.expires.v > now
    /\ \E s \in sessions :
            /\ s.props.sessionToken # call.data.sessionToken
            /\ ExpiresAt(s) <= now

\* C20: updateUser with an id that no User has, and updateSession with a
\* sessionToken that no Session has, leave the store as it was and return
\* null.
C20_UpdateOfMissingIsNull ==
    [][/\ \A data \in UserUpdates :
            (call'.op = "updateUser" /\ call'.data = data
                /\ Match(users, IdArg(data.id)) = {}) =>
                    (graph' = graph /\ ret' = RetNull)
       /\ \A data \in SessionUpdates :
            (call'.op = "updateSession" /\ call'.data = data
                /\ Match(sessions, TokArg(data.sessionToken)) = {}) =>
                    (graph' = graph /\ ret' = RetNull)
      ]_vars

====
